---- MODULE Spec2Model ----
(***************************************************************************)
(* A model of the binary decoding pipeline of willparser.WillParser        *)
(* (src/willparser/willparser.py): the sub-record framing loop of          *)
(* __read_will_paths, the packed sint32 decoder __read_packed_sint32, the  *)
(* two delta decoders __decode_will_coordinates and __decode_delta_encoded *)
(* and WillParser.open, which strings them together.                       *)
(*                                                                         *)
(* Numbers.  Python integers are unbounded, so no operation of the code    *)
(* wraps; the model uses plain integers and keeps every value within the   *)
(* 32-bit integers of TLC.  A Python float x / 10^p is modelled by         *)
(* the exact quotient, the record [num |-> x, den |-> 10^p]: the rounding  *)
(* of the float to the nearest double is not modelled.                     *)
(***************************************************************************)
EXTENDS Integers, Sequences, FiniteSets

VARIABLES
    pc,         \* position of the call under way
    exc,        \* the exception the call raised ("none": it returned)
    payload,    \* the bytes handed to __read_will_paths / __read_packed_sint32
    built,      \* TRUE when payload was produced by an encoder from recs / vals
    recs,       \* the sub-records a built payload of the framing loop holds
    vals,       \* the integers a built payload of the packed decoder holds
    pos,        \* number of payload bytes the framing loop has consumed
    _l,         \* framing loop: body bytes still owed to the current sub-record
    __l,        \* framing loop: length accumulator
    __i,        \* framing loop: index of the next 7-bit group
    _paths,     \* framing loop: the sub-records collected so far
    lstart,     \* history: pos at which the current length prefix began
    ints,       \* argument _ints of the delta decoders
    precision,  \* argument _precision of the delta decoders
    ret,        \* the value the call returned
    fs,         \* the .will files on disk: file name -> sequence of sections
    pages,      \* WillParser.pages
    filename,   \* WillParser.filename
    first       \* history: file name -> the pages its first completed open left

vars == <<pc, exc, payload, built, recs, vals, pos, _l, __l, __i, _paths, lstart,
          ints, precision, ret, fs, pages, filename, first>>

frameVars == <<pos, _l, __l, __i, _paths, lstart, recs>>
deltaVars == <<ints, precision>>
parserVars == <<fs, pages, filename, first>>

(***************************************************************************)
(* Bounds of the model.                                                    *)
(***************************************************************************)
MaxBytes == 3        \* longest raw byte string handed to a byte-level decoder
MaxVals == 2         \* most integers encoded into one packed payload
MaxRecords == 3      \* most sub-records encoded into one framed payload
MaxInts == 8         \* longest integer list handed to a delta decoder
MaxPrecision == 2    \* largest decimalPrecision handed to a delta decoder
MaxSections == 2     \* most sections in one .will file

(***************************************************************************)
(* Generic helpers.                                                        *)
(***************************************************************************)
SeqsUpTo(S, n) == UNION {[1..k -> S] : k \in 0..n}

RECURSIVE Concat(_)
Concat(ss) == IF ss = <<>> THEN <<>> ELSE Head(ss) \o Concat(Tail(ss))

Last(s) == s[Len(s)]

(***************************************************************************)
(* Bit operations of the code on bytes and non-negative integers.          *)
(***************************************************************************)
\* (b & 0x80) == 0x80
HasContinuation(b) == (b \div 128) % 2 = 1

\* b & 0x7F
Low7(b) == b % 128

\* x << n
Shl(x, n) == x * (2 ^ n)

\* x >> n for x >= 0
Shr(x, n) == x \div (2 ^ n)

\* x ^ m for a mask m that is 0 or -1: x ^ 0 = x and x ^ -1 = ~x = -x - 1.
XorMask(x, m) == IF m = 0 THEN x ELSE -x - 1

\* (__l >> 1) ^ -(__l & 1), the protobuf sint32 zigzag decode
ZigZagNoSign(u) == Shr(u, 1)

ZigZagDecode(u) == XorMask(Shr(u, 1), -(u % 2))

(***************************************************************************)
(* WillParser.__read_packed_sint32: one pass over the bytes with the       *)
(* accumulator __l and the group index __i, both reset after every byte    *)
(* without the continuation bit.  The loop state is [l, i, out].           *)
(***************************************************************************)
PackedInit == [l |-> 0, i |-> 0, out |-> <<>>]

PackedByte(st, b) ==
    LET acc == st.l + Shl(Low7(b), 7 * st.i)
    IN  IF HasContinuation(b)
        THEN [l |-> acc, i |-> st.i + 1, out |-> st.out]
        ELSE [l |-> 0, i |-> 0, out |-> Append(st.out, ZigZagDecode(acc))]

RECURSIVE PackedLoop(_, _)
PackedLoop(st, bytes) ==
    IF bytes = <<>> THEN st ELSE PackedLoop(PackedByte(st, Head(bytes)), Tail(bytes))

ReadPackedSint32(bytes) == PackedLoop(PackedInit, bytes).out

(***************************************************************************)
(* The encoders that produce the inputs of the round-trip laws: protobuf   *)
(* zigzag, (v << 1) ^ (v >> 31), and the minimal base-128 varint.          *)
(***************************************************************************)
ZigZagEncode(v) == IF v >= 0 THEN 2 * v ELSE 2 * (-v - 1) + 1

RECURSIVE EncodeVarint(_)
EncodeVarint(u) ==
    IF u < 128 THEN <<u>> ELSE <<128 + (u % 128)>> \o EncodeVarint(u \div 128)

EncodeSint32(v) == EncodeVarint(ZigZagEncode(v))

EncodePacked(vs) == Concat([k \in 1..Len(vs) |-> EncodeSint32(vs[k])])

\* Signed values whose encodings are one to five bytes long.
SampleVals ==
    {0, 1, -1, 63, -64, 64, -65, 8191, -8192, 8192, -(2 ^ 20) - 1, 2 ^ 27,
     -(2 ^ 27) - 1, (2 ^ 30) - 1, -(2 ^ 30)}

\* Raw bytes: terminating and continuation bytes, low and high groups.
SampleBytes == {0, 1, 2, 65, 128, 129, 255}

(***************************************************************************)
(* Values the variables a specification does not use are held at.          *)
(***************************************************************************)
FrameIdle ==
    /\ pos = 0 /\ _l = 0 /\ __l = 0 /\ __i = 0 /\ _paths = <<>> /\ lstart = 0
    /\ recs = <<>>

DeltaIdle == ints = <<>> /\ precision = 0

ParserIdle ==
    /\ fs = <<>> /\ pages = <<>> /\ filename = "None" /\ first = <<>>

(***************************************************************************)
(* SpecPacked: __read_packed_sint32 applied to one byte string, either     *)
(* the packed encoding of up to MaxVals sample values or any string of up  *)
(* to MaxBytes sample bytes.                                               *)
(***************************************************************************)
PackedInputs ==
    {[built |-> TRUE, vals |-> vs, payload |-> EncodePacked(vs)] :
        vs \in SeqsUpTo(SampleVals, MaxVals)}
    \cup
    {[built |-> FALSE, vals |-> <<>>, payload |-> bs] :
        bs \in SeqsUpTo(SampleBytes, MaxBytes)}

InitPacked ==
    /\ \E in \in PackedInputs :
          /\ payload = in.payload
          /\ built = in.built
          /\ vals = in.vals
    /\ pc = "call"
    /\ exc = "none"
    /\ ret = <<>>
    /\ FrameIdle /\ DeltaIdle /\ ParserIdle

CallReadPackedSint32 ==
    /\ pc = "call"
    /\ ret' = ReadPackedSint32(payload)
    /\ pc' = "return"
    /\ UNCHANGED <<exc, payload, built, vals, frameVars, deltaVars, parserVars>>

NextPacked == CallReadPackedSint32

SpecPacked == InitPacked /\ [][NextPacked]_vars

\* C5: the packed decoder applied to the concatenated zigzag-varint encodings
\* of v1..vk returns exactly <<v1, ..., vk>>.
C5_PackedRoundTrip == (pc = "return" /\ built) => (exc = "none" /\ ret = vals)

C5_Witness ==
    /\ pc = "return" /\ built /\ Len(vals) = 2
    /\ vals[1] = -(2 ^ 30) /\ vals[2] = 8191
    /\ Len(payload) = 7
    /\ ret = vals

\* C7: a byte array whose last byte has the continuation bit set (a partial
\* trailing varint) makes the packed decoder fail with MalformedPacked.
C7_PartialVarintFails ==
    (pc = "return" /\ payload # <<>> /\ HasContinuation(Last(payload)))
        => exc = "MalformedPacked"

(***************************************************************************)
(* Floats.  pow(10, _precision) and the true division x / _p.              *)
(***************************************************************************)
Pow10(p) == 10 ^ p

TrueDiv(x, d) == [num |-> x, den |-> d]

(***************************************************************************)
(* WillParser.__decode_will_coordinates.  Python indexes from 0, sequences *)
(* here from 1: _points[i - 2] is pts[i - 1], _ints[_i] is xs[_i + 1].     *)
(***************************************************************************)
CoordsLookbackTwo(pts, i, _i, xs) ==
    LET back == IF Len(pts) >= 2 THEN pts[Len(pts) - 1] ELSE pts[1]
    IN  <<back[1] + xs[_i + 1], back[2] + xs[_i + 2]>>

\* [(_points[i - 2][0] + _ints[_i]), (_points[i - 2][1] + _ints[_i + 1])]
CoordsPoint(pts, i, _i, xs) ==
    <<pts[i - 1][1] + xs[_i + 1], pts[i - 1][2] + xs[_i + 2]>>

\* for i in range(2, _l): _points.append(...); _i += 2
RECURSIVE CoordsLoop(_, _, _, _, _)
CoordsLoop(pts, i, _i, n, xs) ==
    IF i >= n THEN pts
    ELSE CoordsLoop(Append(pts, CoordsPoint(pts, i, _i, xs)), i + 1, _i + 2, n, xs)

\* for i in range(0, len(_points)): _points[i][0] /= _p; _points[i][1] /= _p
CoordsScale(pts, p) ==
    [k \in 1..Len(pts) |-> <<TrueDiv(pts[k][1], p), TrueDiv(pts[k][2], p)>>]

\* _ints[0] / _ints[1] raise IndexError on a list shorter than two.
DecodeWillCoordinates(xs, prec) ==
    IF Len(xs) < 2 THEN [exc |-> "IndexError", val |-> <<>>]
    ELSE [exc |-> "none",
          val |-> CoordsScale(CoordsLoop(<<<<xs[1], xs[2]>>>>, 2, 2, Len(xs) \div 2, xs),
                              Pow10(prec))]

(***************************************************************************)
(* WillParser.__decode_delta_encoded: the running sum is taken in place,   *)
(* so _ints[i - 1] is already a sum when _ints[i] is rewritten.            *)
(***************************************************************************)
DeltaPairwise(xs, orig, i) == orig[i - 1] + orig[i]

\* _ints[i - 1] + _ints[i]
DeltaSum(xs, orig, i) == xs[i - 1] + xs[i]

\* for i in range(1, len(_ints)): _ints[i] = _ints[i - 1] + _ints[i]
RECURSIVE DeltaLoop(_, _, _)
DeltaLoop(xs, orig, i) ==
    IF i > Len(xs) THEN xs
    ELSE DeltaLoop([xs EXCEPT ![i] = DeltaSum(xs, orig, i)], orig, i + 1)

\* for i in range(0, len(_ints)): _ints[i] = _ints[i] / _p
DeltaScale(xs, p) == [k \in 1..Len(xs) |-> TrueDiv(xs[k], p)]

DecodeDeltaEncoded(xs, prec) == DeltaScale(DeltaLoop(xs, xs, 2), Pow10(prec))

(***************************************************************************)
(* SpecDelta: either delta decoder applied to one list of up to MaxInts    *)
(* sample integers at a precision of up to MaxPrecision.                   *)
(***************************************************************************)
SampleInts == {-2, 0, 3}

InitDelta ==
    /\ ints \in SeqsUpTo(SampleInts, MaxInts)
    /\ precision \in 0..MaxPrecision
    /\ pc = "call"
    /\ exc = "none"
    /\ ret = <<>>
    /\ payload = <<>> /\ built = FALSE /\ vals = <<>>
    /\ FrameIdle /\ ParserIdle

CallDecodeWillCoordinates ==
    /\ pc = "call"
    /\ LET r == DecodeWillCoordinates(ints, precision)
       IN  exc' = r.exc /\ ret' = r.val
    /\ pc' = "coords_done"
    /\ UNCHANGED <<payload, built, vals, frameVars, deltaVars, parserVars>>

CallDecodeDeltaEncoded ==
    /\ pc = "call"
    /\ ret' = DecodeDeltaEncoded(ints, precision)
    /\ pc' = "delta_done"
    /\ UNCHANGED <<exc, payload, built, vals, frameVars, deltaVars, parserVars>>

NextDelta == CallDecodeWillCoordinates \/ CallDecodeDeltaEncoded

SpecDelta == InitDelta /\ [][NextDelta]_vars

\* Sum of xs[from], xs[from + 2], ..., the first n entries of one axis.
RECURSIVE AxisSum(_, _, _)
AxisSum(xs, from, n) == IF n = 0 THEN 0 ELSE xs[from] + AxisSum(xs, from + 2, n - 1)

RECURSIVE PrefixSum(_, _)
PrefixSum(xs, k) == IF k = 0 THEN 0 ELSE xs[k] + PrefixSum(xs, k - 1)

\* C1: on an even-length list of at least two integers the point decoder
\* returns len(ints)/2 points, the first being (ints[0], ints[1]) / 10^p.
C1_PointCountAndFirst ==
    (pc = "coords_done" /\ Len(ints) >= 2 /\ Len(ints) % 2 = 0)
        => /\ exc = "none"
           /\ Len(ret) = Len(ints) \div 2
           /\ ret[1] = <<[num |-> ints[1], den |-> Pow10(precision)],
                         [num |-> ints[2], den |-> Pow10(precision)]>>

\* C9: every returned point after the first is, before the division by
\* 10^p, the point right before it plus its own (dx, dy) pair, that is the
\* per-axis sum of the first pairs; it is never built on the point two back.
C9_CumulativePerAxis ==
    (pc = "coords_done" /\ exc = "none")
        => \A k \in 2..Len(ret) :
              /\ ret[k][1].den = Pow10(precision)
              /\ ret[k][2].den = Pow10(precision)
              /\ ret[k][1].num = ret[k - 1][1].num + ints[2 * k - 1]
              /\ ret[k][2].num = ret[k - 1][2].num + ints[2 * k]
              /\ ret[k][1].num = AxisSum(ints, 1, k)
              /\ ret[k][2].num = AxisSum(ints, 2, k)

C9_Witness ==
    /\ pc = "coords_done" /\ exc = "none" /\ precision = 2
    /\ Len(ret) >= 3
    /\ ints[3] # 0 /\ ints[4] # 0
    /\ ret[3][1].num = ret[2][1].num + ints[5]
    /\ ret[3][1].num # ret[1][1].num + ints[5]

\* C3: on a non-empty list the scalar decoder returns a list of the same
\* length whose entry i, times 10^p, is ints[0] + ... + ints[i].
C3_ScalarPrefixSums ==
    (pc = "delta_done" /\ ints # <<>>)
        => /\ Len(ret) = Len(ints)
           /\ \A k \in 1..Len(ret) :
                 /\ ret[k].den # 0
                 /\ ret[k].num * Pow10(precision) = PrefixSum(ints, k) * ret[k].den

C3_Witness ==
    /\ pc = "delta_done" /\ Len(ints) >= 3 /\ precision = 2
    /\ ints[1] # 0 /\ ints[2] # 0 /\ ints[3] # 0
    /\ ret[3].num = ints[1] + ints[2] + ints[3]
    /\ ret[3].den = 100

(***************************************************************************)
(* The framing loop of WillParser.__read_will_paths.  Its locals are the   *)
(* record [_l, __l, __i, _paths]; FrameBody is the body of                 *)
(* "for b in payload".  __l and __i are reset only by a body byte.         *)
(***************************************************************************)
FrameInit == [_l |-> 0, __l |-> 0, __i |-> 0, _paths |-> <<>>]

AppendToLast(ps, b) == [ps EXCEPT ![Len(ps)] = Append(ps[Len(ps)], b)]

FrameBodyKeepAcc(st, b) ==
    IF st._l = 0
    THEN LET acc == st.__l + Shl(Low7(b), 7 * st.__i)
         IN  IF HasContinuation(b)
             THEN [st EXCEPT !.__l = acc, !.__i = st.__i + 1]
             ELSE [st EXCEPT !.__l = acc, !._paths = Append(st._paths, <<>>),
                             !._l = acc]
    ELSE [st EXCEPT !._paths = AppendToLast(st._paths, b), !._l = st._l - 1]

FrameBody(st, b) ==
    IF st._l = 0
    THEN LET acc == st.__l + Shl(Low7(b), 7 * st.__i)
         IN  IF HasContinuation(b)
             THEN [st EXCEPT !.__l = acc, !.__i = st.__i + 1]
             ELSE [st EXCEPT !.__l = acc, !._paths = Append(st._paths, <<>>),
                             !._l = acc]
    ELSE [__i |-> 0, __l |-> 0, _paths |-> AppendToLast(st._paths, b),
          _l |-> st._l - 1]

RECURSIVE FrameLoop(_, _)
FrameLoop(st, bytes) ==
    IF bytes = <<>> THEN st ELSE FrameLoop(FrameBody(st, Head(bytes)), Tail(bytes))

(***************************************************************************)
(* One varint read on its own, as __read_packed_sint32 reads each of its   *)
(* entries: accumulator and group index start at 0 at byte `at`.  ok is    *)
(* FALSE when the bytes end before a byte without the continuation bit.    *)
(***************************************************************************)
RECURSIVE VarintFrom(_, _, _, _)
VarintFrom(bytes, at, acc, i) ==
    IF at > Len(bytes) THEN [ok |-> FALSE, value |-> acc, consumed |-> i]
    ELSE LET sum == acc + Shl(Low7(bytes[at]), 7 * i)
         IN  IF HasContinuation(bytes[at])
             THEN VarintFrom(bytes, at + 1, sum, i + 1)
             ELSE [ok |-> TRUE, value |-> sum, consumed |-> i + 1]

ReadVarint(bytes, at) == VarintFrom(bytes, at, 0, 0)

(***************************************************************************)
(* SpecFrame: the framing loop run byte by byte over one payload, either   *)
(* up to MaxRecords sample sub-records, each behind the minimal varint of  *)
(* its length, or any string of up to MaxBytes sample bytes.               *)
(***************************************************************************)
LongRecord == [k \in 1..130 |-> 128 + (k % 3)]

SampleRecords == {<<>>, <<65>>, <<128, 1>>, LongRecord}

EncodeRecords(rs) ==
    Concat([k \in 1..Len(rs) |-> EncodeVarint(Len(rs[k])) \o rs[k]])

FrameInputs ==
    {[built |-> TRUE, recs |-> rs, payload |-> EncodeRecords(rs)] :
        rs \in SeqsUpTo(SampleRecords, MaxRecords)}
    \cup
    {[built |-> FALSE, recs |-> <<>>, payload |-> bs] :
        bs \in SeqsUpTo(SampleBytes, MaxBytes)}

InitFrame ==
    /\ \E in \in FrameInputs :
          /\ payload = in.payload
          /\ built = in.built
          /\ recs = in.recs
    /\ pc = "loop"
    /\ exc = "none"
    /\ pos = 0 /\ lstart = 0
    /\ _l = FrameInit._l /\ __l = FrameInit.__l /\ __i = FrameInit.__i
    /\ _paths = FrameInit._paths
    /\ ret = <<>> /\ vals = <<>>
    /\ DeltaIdle /\ ParserIdle

\* One iteration of "for b in payload".
FrameByte ==
    /\ pc = "loop"
    /\ pos < Len(payload)
    /\ LET b == payload[pos + 1]
           st == FrameBody([_l |-> _l, __l |-> __l, __i |-> __i, _paths |-> _paths], b)
       IN  /\ _l' = st._l /\ __l' = st.__l /\ __i' = st.__i /\ _paths' = st._paths
           /\ pos' = pos + 1
           /\ lstart' = IF st._l = 0 /\ ~(_l = 0 /\ HasContinuation(b))
                         THEN pos + 1 ELSE lstart
    /\ UNCHANGED <<pc, exc, payload, built, recs, vals, ret, deltaVars, parserVars>>

\* The payload is exhausted: the loop ends and _paths goes on to be parsed.
FrameExit ==
    /\ pc = "loop"
    /\ pos = Len(payload)
    /\ pc' = "parse"
    /\ UNCHANGED <<exc, payload, built, recs, vals, pos, _l, __l, __i, _paths,
                   lstart, ret, deltaVars, parserVars>>

NextFrame == FrameByte \/ FrameExit

SpecFrame == InitFrame /\ [][NextFrame]_vars

\* C2: of a payload made of N sub-records, each behind the varint of its
\* length, the framing loop yields the N sub-records, in order, unchanged.
C2_FrameRoundTrip == (pc = "parse" /\ built) => _paths = recs

C2_Witness ==
    /\ pc = "parse" /\ built /\ Len(recs) = 2
    /\ recs[1] = LongRecord /\ recs[2] = <<>>
    /\ _paths = recs

\* C6: a payload that ends inside a sub-record fails with TruncatedRecord
\* and one that ends inside a length prefix fails with TruncatedLength.
C6_TruncationFails ==
    pc = "parse"
        => /\ (_l > 0 => exc = "TruncatedRecord")
           /\ (_l = 0 /\ lstart < pos => exc = "TruncatedLength")

\* C10: the length the loop takes from a prefix is the value of a varint
\* read from the start of that prefix with a fresh accumulator and index.
C10_LengthIsFreshVarint ==
    [][(pc = "loop" /\ pos < Len(payload) /\ _l = 0
           /\ ~HasContinuation(payload[pos + 1]))
        => _l' = ReadVarint(payload, lstart + 1).value]_vars

(***************************************************************************)
(* Path.parse_from_bytes over the fields wacompath.py declares: a scan of  *)
(* tag / value pairs in the protobuf wire format.  A tag is the varint     *)
(* (field << 3) | wire; wire 0 is a varint, 2 a length-delimited byte      *)
(* string, 5 four bytes.  Fields that are not read by __read_will_paths    *)
(* are passed over.  The scan is applied to well-formed records only.      *)
(***************************************************************************)
DefaultPrecision == 2

PathDefaults ==
    [decimalPrecision |-> DefaultPrecision, points |-> <<>>, strokeWidths |-> <<>>,
     strokeColor |-> <<>>]

SetPathField(p, field, v) ==
    CASE field = 3 -> [p EXCEPT !.decimalPrecision = v]
      [] field = 4 -> [p EXCEPT !.points = v]
      [] field = 5 -> [p EXCEPT !.strokeWidths = v]
      [] field = 6 -> [p EXCEPT !.strokeColor = v]
      [] OTHER -> p

RECURSIVE ParseFields(_, _, _)
ParseFields(bytes, at, p) ==
    IF at > Len(bytes) THEN p
    ELSE LET tag == ReadVarint(bytes, at)
             field == tag.value \div 8
             wire == tag.value % 8
             from == at + tag.consumed
         IN  CASE wire = 0 ->
                    LET v == ReadVarint(bytes, from)
                    IN  ParseFields(bytes, from + v.consumed, SetPathField(p, field, v.value))
               [] wire = 2 ->
                    LET n == ReadVarint(bytes, from)
                        data == SubSeq(bytes, from + n.consumed, from + n.consumed + n.value - 1)
                    IN  ParseFields(bytes, from + n.consumed + n.value, SetPathField(p, field, data))
               [] wire = 5 -> ParseFields(bytes, from + 4, p)

ParseFromBytes(bytes) == ParseFields(bytes, 1, PathDefaults)

(***************************************************************************)
(* numpy.average of the scaled widths: their sum over their number, nan    *)
(* (here 0 / 0) for an empty list.                                         *)
(***************************************************************************)
RECURSIVE SumNum(_)
SumNum(xs) == IF xs = <<>> THEN 0 ELSE Head(xs).num + SumNum(Tail(xs))

Average(xs) ==
    IF xs = <<>> THEN TrueDiv(0, 0) ELSE TrueDiv(SumNum(xs), xs[1].den * Len(xs))

(***************************************************************************)
(* WillParser.__read_will_paths: frame the payload, then decode each       *)
(* sub-record into a path dictionary.  An exception of a decoder leaves    *)
(* the method at once, and nothing is returned.                            *)
(***************************************************************************)
DecodePath(_pth) ==
    LET p == ParseFromBytes(_pth)
        points == DecodeWillCoordinates(ReadPackedSint32(p.points), p.decimalPrecision)
        strokes == DecodeDeltaEncoded(ReadPackedSint32(p.strokeWidths), p.decimalPrecision)
    IN  [exc |-> points.exc,
         val |-> [points |-> points.val, strokes |-> strokes,
                  avg_width |-> Average(strokes),
                  color |-> ReadPackedSint32(p.strokeColor)]]

RECURSIVE DecodePaths(_, _)
DecodePaths(ps, ret_paths) ==
    IF ps = <<>> THEN [exc |-> "none", val |-> ret_paths]
    ELSE LET d == DecodePath(Head(ps))
         IN  IF d.exc # "none" THEN [exc |-> d.exc, val |-> <<>>]
             ELSE DecodePaths(Tail(ps), Append(ret_paths, d.val))

ReadWillPaths(content) == DecodePaths(FrameLoop(FrameInit, content)._paths, <<>>)

(***************************************************************************)
(* _WillPage and WillParser.open.  A section of a file is the width and    *)
(* height attributes of its svg entry ("absent" when it has none) and the  *)
(* content of its protobuf entry.  open empties self.pages, then appends   *)
(* one page per section; an exception leaves the pages appended so far.    *)
(***************************************************************************)
WillPage(paths, width, height) ==
    [paths |-> paths,
     width |-> IF width = "absent" THEN "592" ELSE width,
     height |-> IF height = "absent" THEN "864" ELSE height]

PagesKept == pages

\* self.pages = []
PagesAtOpen == <<>>

RECURSIVE OpenSections(_, _)
OpenSections(sections, pgs) ==
    IF sections = <<>> THEN [exc |-> "none", pages |-> pgs]
    ELSE LET sec == Head(sections)
             r == ReadWillPaths(sec.content)
         IN  IF r.exc # "none" THEN [exc |-> r.exc, pages |-> pgs]
             ELSE OpenSections(Tail(sections),
                               Append(pgs, WillPage(r.val, sec.width, sec.height)))

(***************************************************************************)
(* Spec: one WillParser and two files, as in test.py; open is called on    *)
(* either file, any number of times.  test.will holds at most one sample   *)
(* section, multipage.will up to MaxSections.                              *)
(***************************************************************************)
EncodeBytesField(tag, data) == <<tag>> \o EncodeVarint(Len(data)) \o data

\* The bytes of a Path message with fields 4, 5, 6 and, unless prec is -1, 3.
EncodePath(prec, pointInts, widthInts, colorInts) ==
    (IF prec = -1 THEN <<>> ELSE <<24>> \o EncodeVarint(prec))
    \o EncodeBytesField(34, EncodePacked(pointInts))
    \o EncodeBytesField(42, EncodePacked(widthInts))
    \o EncodeBytesField(50, EncodePacked(colorInts))

PathThreePoints == EncodePath(2, <<4, 6, 2, -2, 0, 4>>, <<100, 10, -5>>, <<255>>)
PathOnePoint == EncodePath(-1, <<70, -3>>, <<100>>, <<0, 1>>)
PathTwoWidths == EncodePath(1, <<4, 6>>, <<100, 10>>, <<7>>)
PathNoPoints == EncodePath(2, <<>>, <<100>>, <<7>>)

SampleSections ==
    {[width |-> "600", height |-> "800", content |-> EncodeRecords(<<PathThreePoints>>)],
     [width |-> "absent", height |-> "absent",
      content |-> EncodeRecords(<<PathOnePoint, PathTwoWidths>>)],
     [width |-> "absent", height |-> "800", content |-> EncodeRecords(<<PathNoPoints>>)],
     [width |-> "600", height |-> "800", content |-> <<>>]}

FileNames == {"test.will", "multipage.will"}

NotOpened == [done |-> FALSE, again |-> FALSE, pages |-> <<>>]

Init ==
    /\ fs \in {f \in [FileNames -> SeqsUpTo(SampleSections, MaxSections)] :
                   Len(f["test.will"]) <= 1}
    /\ pages = <<>>
    /\ filename = "None"
    /\ first = [f \in FileNames |-> NotOpened]
    /\ pc = "idle"
    /\ exc = "none"
    /\ ret = <<>>
    /\ payload = <<>> /\ built = FALSE /\ vals = <<>>
    /\ FrameIdle /\ DeltaIdle

Open(fname) ==
    /\ LET r == OpenSections(fs[fname], PagesAtOpen)
       IN  /\ pages' = r.pages
           /\ exc' = r.exc
           /\ first' = IF r.exc # "none" THEN first
                        ELSE IF first[fname].done
                        THEN [first EXCEPT ![fname].again = TRUE]
                        ELSE [first EXCEPT ![fname] =
                                 [done |-> TRUE, again |-> FALSE, pages |-> r.pages]]
    /\ filename' = fname
    /\ pc' = "opened"
    /\ UNCHANGED <<fs, ret, payload, built, vals, frameVars, deltaVars>>

Next == \E fname \in FileNames : Open(fname)

Spec == Init /\ [][Next]_vars

\* C4: every stroke that __read_will_paths emits, and open stores in a page,
\* has as many stroke widths as points (a sub-record whose counts differ is
\* to fail with WidthCountMismatch and emit no stroke).
C4_WidthsMatchPoints ==
    \A n \in 1..Len(pages) :
        \A k \in 1..Len(pages[n].paths) :
            Len(pages[n].paths[k].points) = Len(pages[n].paths[k].strokes)

\* C8: every completed open of a file leaves exactly the pages its first
\* open left, one per section of that file and none of another file, and
\* two files with the same content decode to the same pages; an open that
\* raised holds no more pages than the file has sections.
C8_OpenIdempotent ==
    pc = "opened"
        => /\ Len(pages) <= Len(fs[filename])
           /\ exc = "none"
                => /\ first[filename].done
                   /\ pages = first[filename].pages
                   /\ Len(pages) = Len(fs[filename])
                   /\ \A g \in FileNames :
                         (first[g].done /\ fs[g] = fs[filename])
                             => first[g].pages = pages

C8_Witness ==
    /\ pc = "opened" /\ exc = "none" /\ filename = "multipage.will"
    /\ first["multipage.will"].again
    /\ first["test.will"].done
    /\ Len(fs["test.will"]) = 1
    /\ Len(pages) = 2
    /\ Len(pages[1].paths) = 1 /\ Len(pages[2].paths) = 2
    /\ pages = first["multipage.will"].pages

\* C11: an open that a decode error aborted leaves no partial result: the
\* pages list holds no page, in particular none decoded from the sections
\* that came before the failing one in the same file.
C11_FailedOpenLeavesNoPages ==
    (pc = "opened" /\ exc # "none") => pages = <<>>

====
